---- MODULE Spec2Model ----
(***************************************************************************)
(* Invoice lifecycle and payment reconciliation of the client/invoice      *)
(* management portal: the Stripe webhook route and its handlers            *)
(* (backend routes/webhooks), the operator endpoints that write an         *)
(* invoice's status (routes/invoices: send, pay, status; routes/payments:  *)
(* confirm) and the confirmation emails they issue.                        *)
(*                                                                         *)
(* Every handler is an async function: between two awaits it runs without  *)
(* interruption, and each awaited database statement executes atomically   *)
(* at some later point.  A request is therefore a small process whose pc   *)
(* names the next awaited operation; requests in different slots           *)
(* interleave at these points.                                             *)
(***************************************************************************)
EXTENDS Integers, Sequences, FiniteSets, Bags, TLC

\* ---------------------------------------------------------------- bounds
\* Total number of requests (webhook deliveries and operator calls) in a run.
MaxRequests == 3

\* Request slots: the number of requests that can be in flight together.
Slots == {"a", "b"}

\* ------------------------------------------------------------- constants
\* Invoice ids a request can name: 1 is stored, 2 references no invoice.
InvoiceIdParams == {1, 2}

\* metadata.invoice_id absent: processWebhookEvent yields invoiceId = null.
NoInvoiceId == 0

\* The status values the schema documents and the validators accept.
StatusDomain == {"draft", "sent", "paid", "overdue", "cancelled"}

\* Totals are kept in whole currency units, gateway amounts in cents.
AmountInCents(total) == total * 100

\* The stored total of invoice 1 (150.00 PHP) and what an event can carry:
\* the matching amount and currency, another amount, another currency.
InvoiceTotals == {150}
EventAmounts == {AmountInCents(150), AmountInCents(100)}
EventCurrencies == {"php", "usd"}

\* currency.toUpperCase()
ToUpperCase(c) == IF c = "php" THEN "PHP" ELSE IF c = "usd" THEN "USD" ELSE c

\* Event types: the four the route dispatches on and one it does not know.
SuccessTypes == {"payment_intent.succeeded", "checkout.session.completed"}
HandledTypes == SuccessTypes \cup {"payment_intent.payment_failed", "payment_intent.canceled"}
EventTypes == HandledTypes \cup {"charge.refunded"}

\* A gateway event.  The provider issues each event once under a unique id,
\* so an event is identified by its content: redelivering "the same event
\* id" is delivering an equal record.
AllEvents ==
  [type : EventTypes, invoiceId : {NoInvoiceId} \cup InvoiceIdParams,
   amount : EventAmounts, currency : EventCurrencies]

\* The events delivered in the runs explored: every handled type for the
\* stored invoice with each amount (in PHP) and with the matching amount in
\* USD, and, with the matching amount only, the unknown type and the events
\* that carry no invoice id or the id of no invoice.
Events ==
  {e \in AllEvents :
     \/ e.invoiceId = 1 /\ e.type \in HandledTypes
          /\ (e.currency = "php" \/ e.amount = AmountInCents(150))
     \/ e.amount = AmountInCents(150) /\ e.currency = "php"
          /\ (e.type = "charge.refunded" \/ e.invoiceId # 1)}

NullEvent == [type |-> "none", invoiceId |-> NoInvoiceId, amount |-> 0, currency |-> ""]

\* The stripe-signature header: absent, or an HMAC of some payload under
\* some secret.
WebhookSecret == "whsec_live"
Secrets == {WebhookSecret, "whsec_forged"}
NoSignature == [present |-> FALSE, secret |-> "", payload |-> NullEvent]
Sign(payload, secret) == [present |-> TRUE, secret |-> secret, payload |-> payload]

\* A verification that checks the header's secret but does not bind it to
\* the body received.
VerifyWebhookSignature_HeaderOnly(payload, signature) ==
  signature.secret = WebhookSecret

\* stripe.webhooks.constructEvent: succeeds iff the header is the HMAC of
\* the raw body under the configured webhook secret.
VerifyWebhookSignature(payload, signature) ==
  signature.secret = WebhookSecret /\ signature.payload = payload

\* processWebhookEvent: the fields the handlers read off the event object.
ProcessWebhookEvent(event) ==
  [type |-> event.type, invoiceId |-> event.invoiceId,
   amount |-> event.amount, currency |-> event.currency]

\* ------------------------------------------------------------------ state
VARIABLES
  invoices,      \* the invoices table: id -> row
  clients,       \* the clients table: id -> row (email may be null)
  req,           \* slot -> the request in flight in it
  nreq,          \* requests started so far
  lastResp,      \* the HTTP response sent by the latest step, if any
  paidBy,        \* history: invoice id -> the event that last moved it
                 \*          sent -> paid (NullEvent: none, or overtaken)
  reverted,      \* history: invoice id -> an operator reverted that to sent
  eventLog,      \* what the webhook route has recorded about handled events
  invoiceItems,  \* the invoice_items table: a bag of rows
  edit,          \* slot -> the create/update/delete request in flight in it
  serial,        \* the last value taken from the invoices id sequence
  projects,      \* the projects table: rows in insertion order
  resolved,      \* the latest currency resolution: for which client, and what
  crashed,       \* history: the webhook request the latest process crash cut short
  poll           \* the PaymentSuccess page: its timers and fetches

vars == <<invoices, clients, req, nreq, lastResp, paidBy, reverted, eventLog,
          invoiceItems, edit, serial, projects, resolved, crashed, poll>>

\* The state the steps of the webhook route and of the status endpoints
\* leave alone.
restVars == <<invoiceItems, edit, serial, projects, resolved, crashed, poll>>

OperatorKinds == {"send", "pay", "status", "confirm"}

\* A request.  existing, found and clientEmail are what the handler read;
\* before is the status its UPDATE replaced and emailed the number of emails
\* it issued.  Three fields describe the request itself: genuine (the
\* signature header really is the HMAC of the body under the webhook
\* secret), redelivery (the event had already moved the invoice from sent
\* to paid when it was received) and afterRevert (an operator had since
\* reverted the invoice to sent).
Idle ==
  [kind |-> "idle", pc |-> "idle", event |-> NullEvent, invoiceId |-> NoInvoiceId,
   target |-> "", existing |-> "", clientEmail |-> FALSE, found |-> FALSE,
   before |-> "", emailed |-> 0, genuine |-> TRUE,
   redelivery |-> FALSE, afterRevert |-> FALSE,
   dbFailed |-> FALSE, emailFailed |-> FALSE]

\* A create, update or delete request: its parameters and its position.
NoEdit ==
  [kind |-> "idle", pc |-> "idle", invoiceId |-> NoInvoiceId, clientId |-> 0,
   items |-> <<>>, status |-> ""]

\* A response: besides the status code, what the request was.  event is kept
\* for a verified webhook request answered in the step that received it.
NoResponse ==
  [kind |-> "none", code |-> 0, genuine |-> TRUE, event |-> NullEvent,
   emailed |-> 0, dbFailed |-> FALSE]

\* ---------------------------------------------------------- the database
\* db.update(invoices).set({status}).where(eq(invoices.id, id))
UpdateStatus(inv, id, s) ==
  IF id \in DOMAIN inv THEN [inv EXCEPT ![id].status = s] ELSE inv

StatusOf(inv, id) == IF id \in DOMAIN inv THEN inv[id].status ELSE ""

\* req.session.userId of every request modelled: the requester.
SessionUserId == 1

\* The users table.
Users == {1, 2}

\* select ... from invoices innerJoin clients where invoices.id = id and
\* clients.userId = req.session.userId: a row comes back.
OwnInvoice(id) ==
  /\ id \in DOMAIN invoices
  /\ clients[invoices[id].clientId].userId = SessionUserId

\* select ... from invoices leftJoin clients where invoices.id = id limit 1
ClientEmailOf(inv, cl, id) ==
  IF id \in DOMAIN inv THEN cl[inv[id].clientId].email ELSE FALSE

\* An item of a request body, and the bodies' item lists (at least one item).
Item(q, p) == [quantity |-> q, unitPrice |-> p]

ItemLists == {<<Item(1, 10)>>, <<Item(2, 5), Item(2, 5)>>}

\* The items of the invoice the system starts with.
InitialItems == <<Item(1, 150)>>

\* calculateTotal: items.reduce((total, item) => total + quantity * unitPrice, 0)
RECURSIVE CalculateTotal(_)
CalculateTotal(items) ==
  IF items = <<>> THEN 0
  ELSE Head(items).quantity * Head(items).unitPrice + CalculateTotal(Tail(items))

\* The rows items.map(...) builds for invoice id.
RECURSIVE ItemRows(_, _)
ItemRows(id, items) ==
  IF items = <<>> THEN EmptyBag
  ELSE SetToBag({[invoiceId |-> id, quantity |-> Head(items).quantity,
                  unitPrice |-> Head(items).unitPrice]})
         (+) ItemRows(id, Tail(items))

\* db.delete(invoiceItems).where(eq(invoiceItems.invoiceId, id))
DeleteItems(rows, id) ==
  [x \in {y \in BagToSet(rows) : y.invoiceId # id} |-> rows[x]]

\* No currency resolved yet.
NoCurrency == [clientId |-> 0, currency |-> ""]

\* No request was cut short by a crash.
NoCrash == [event |-> NullEvent, emailed |-> 0]

\* The PaymentSuccess page before its effect has run.
NoPoll ==
  [mounted |-> FALSE, initialTimer |-> FALSE, initialFetch |-> FALSE,
   pollInterval |-> FALSE, stopTimer |-> FALSE, inFlight |-> 0, fetches |-> 0,
   paidSeen |-> FALSE, cleanedUp |-> FALSE]

\* Everything but the projects table; client 1 and its invoice belong to
\* one of owners.
InitOwnedBy(owners) ==
  /\ \E s \in {"draft", "sent"}, u \in owners :
       /\ invoices = [i \in {1} |-> [status |-> s,
                                      totalAmount |-> CalculateTotal(InitialItems),
                                      currency |-> "PHP", clientId |-> 1,
                                      invoiceNumber |-> "INV-1",
                                      userId |-> u, paymentLink |-> ""]]
       /\ clients \in [{1} -> [email : BOOLEAN, userId : {u}]]
  /\ crashed = NoCrash
  /\ poll = NoPoll
  /\ invoiceItems = ItemRows(1, InitialItems)
  /\ edit = [s \in Slots |-> NoEdit]
  /\ serial = 1
  /\ resolved = NoCurrency
  /\ req = [s \in Slots |-> Idle]
  /\ nreq = 0
  /\ lastResp = NoResponse
  /\ paidBy = [i \in {1} |-> NullEvent]
  /\ reverted = [i \in {1} |-> FALSE]
  /\ eventLog = {}

\* Everything belongs to the requester.
InitBase == InitOwnedBy({SessionUserId})

Init ==
  /\ InitBase
  /\ projects = <<[clientId |-> 1, currency |-> "PHP"]>>


\* ------------------------------------------------------ shared machinery
\* One UPDATE of the status column issued on behalf of src (a gateway event,
\* or NullEvent for an operator endpoint), together with the bookkeeping of
\* the history variables.
WriteStatus(src, id, s) ==
  LET before == StatusOf(invoices, id)
      after  == StatusOf(UpdateStatus(invoices, id, s), id)
  IN /\ invoices' = UpdateStatus(invoices, id, s)
     /\ IF id \notin DOMAIN invoices \/ before = after
          THEN UNCHANGED <<paidBy, reverted>>
        ELSE IF src.type \in SuccessTypes /\ before = "sent" /\ after = "paid"
          THEN /\ paidBy' = [paidBy EXCEPT ![id] = src]
               /\ reverted' = [reverted EXCEPT ![id] = FALSE]
        ELSE IF src = NullEvent /\ before = "paid" /\ after = "sent"
                /\ paidBy[id] # NullEvent
          THEN /\ reverted' = [reverted EXCEPT ![id] = TRUE]
               /\ UNCHANGED paidBy
        ELSE /\ paidBy' = [paidBy EXCEPT ![id] = NullEvent]
             /\ reverted' = [reverted EXCEPT ![id] = FALSE]

\* res.status(code).json(...) for the request q; the slot is released by
\* the caller.
Response(q, code) ==
  [kind |-> q.kind, code |-> code, genuine |-> q.genuine,
   event |-> IF q.genuine /\ q.pc = "idle" THEN q.event ELSE NullEvent,
   emailed |-> q.emailed, dbFailed |-> q.dbFailed]

\* A request that starts: the slot is free and the run has budget left.
CanStart(r) == req[r] = Idle /\ nreq < MaxRequests

\* The event was delivered before and that delivery paid its invoice.
Redelivered(event) ==
  event.invoiceId \in DOMAIN paidBy /\ paidBy[event.invoiceId] = event

\* -------------------------------------------- POST /api/webhooks/stripe
\* A switch whose default branch runs a handler as well.
Dispatches_Default(type) == TRUE
\* switch (event.type): the four cases that call a handler; the default
\* branch does nothing.
Dispatches(type) == type \in HandledTypes

\* The part of the route that runs before the first await: the header
\* check, verifyWebhookSignature, processWebhookEvent and the dispatch.
\* A request refused here, and one whose handler returns at once, is
\* answered in the same step.
StripeWebhook(r) ==
  /\ CanStart(r)
  /\ \E rawBody \in Events :
     \E signature \in {NoSignature} \cup
                      {Sign(p, k) : p \in {rawBody, NullEvent}, k \in Secrets} :
       LET q0 == [Idle EXCEPT !.kind = "webhook", !.event = rawBody,
                              !.genuine = (signature = Sign(rawBody, WebhookSecret))] IN
       /\ nreq' = nreq + 1
       /\ IF ~signature.present
            THEN /\ lastResp' = Response(q0, 400)
                 /\ UNCHANGED req
          ELSE IF ~VerifyWebhookSignature(rawBody, signature)
            THEN /\ lastResp' = Response(q0, 400)
                 /\ UNCHANGED req
          ELSE LET webhookData == ProcessWebhookEvent(rawBody) IN
               IF ~Dispatches(webhookData.type)
                    \/ webhookData.invoiceId = NoInvoiceId
                 THEN /\ lastResp' = Response(q0, 200)
                      /\ UNCHANGED req
               ELSE /\ req' = [req EXCEPT ![r] =
                                 [q0 EXCEPT !.pc = "update",
                                            !.invoiceId = webhookData.invoiceId,
                                            !.redelivery = Redelivered(rawBody),
                                            !.afterRevert =
                                               (Redelivered(rawBody)
                                                /\ reverted[webhookData.invoiceId])]]
                    /\ lastResp' = NoResponse
  /\ UNCHANGED <<invoices, clients, paidBy, reverted, eventLog, restVars>>

InHandler(r, type, pc) ==
  /\ req[r].kind = "webhook"
  /\ req[r].event.type = type
  /\ req[r].pc = pc

\* The status each handler's UPDATE writes.
PaymentSuccessStatus == "paid"
PaymentFailureStatus == "overdue"
PaymentCancellationStatus == "pending"
\* A checkout handler that writes the cancellation handler's status.
CheckoutCompletedStatus_Pending == "pending"
CheckoutCompletedStatus == "paid"

\* The UPDATE of a handler, followed by the handler's next await.
HandlerUpdate(r, s, next) ==
  LET id == req[r].invoiceId IN
  /\ WriteStatus(req[r].event, id, s)
  /\ req' = [req EXCEPT ![r].pc = next,
                        ![r].before = StatusOf(invoices, id)]
  /\ lastResp' = NoResponse
  /\ UNCHANGED <<clients, nreq, eventLog, restVars>>

\* The invoice/client join a handler reads after its UPDATE; sendsEmail
\* tells whether the handler goes on to the confirmation email.
HandlerSelect(r, sendsEmail) ==
  LET id == req[r].invoiceId
      found == id \in DOMAIN invoices
      email == ClientEmailOf(invoices, clients, id)
  IN /\ req' = [req EXCEPT ![r].found = found, ![r].clientEmail = email,
                           ![r].pc = IF sendsEmail /\ found /\ email
                                       THEN "email" ELSE "respond"]
     /\ lastResp' = NoResponse
     /\ UNCHANGED <<invoices, clients, nreq, paidBy, reverted, eventLog, restVars>>

\* emailService.sendPaymentConfirmationEmail is called once.
SendPaymentConfirmationEmail(r) ==
  /\ req' = [req EXCEPT ![r].emailed = @ + 1, ![r].pc = "respond"]
  /\ lastResp' = NoResponse
  /\ UNCHANGED <<invoices, clients, nreq, paidBy, reverted, eventLog, restVars>>

HandlePaymentSuccess_Update(r) ==
  /\ InHandler(r, "payment_intent.succeeded", "update")
  /\ HandlerUpdate(r, PaymentSuccessStatus, "select")

HandlePaymentSuccess_Select(r) ==
  /\ InHandler(r, "payment_intent.succeeded", "select")
  /\ HandlerSelect(r, TRUE)

HandlePaymentSuccess_Email(r) ==
  /\ InHandler(r, "payment_intent.succeeded", "email")
  /\ SendPaymentConfirmationEmail(r)

HandlePaymentFailure_Update(r) ==
  /\ InHandler(r, "payment_intent.payment_failed", "update")
  /\ HandlerUpdate(r, PaymentFailureStatus, "select")

HandlePaymentFailure_Select(r) ==
  /\ InHandler(r, "payment_intent.payment_failed", "select")
  /\ HandlerSelect(r, FALSE)

HandlePaymentCancellation_Update(r) ==
  /\ InHandler(r, "payment_intent.canceled", "update")
  /\ HandlerUpdate(r, PaymentCancellationStatus, "respond")

HandleCheckoutSessionCompleted_Update(r) ==
  /\ InHandler(r, "checkout.session.completed", "update")
  /\ HandlerUpdate(r, CheckoutCompletedStatus, "select")

HandleCheckoutSessionCompleted_Select(r) ==
  /\ InHandler(r, "checkout.session.completed", "select")
  /\ HandlerSelect(r, TRUE)

HandleCheckoutSessionCompleted_Email(r) ==
  /\ InHandler(r, "checkout.session.completed", "email")
  /\ SendPaymentConfirmationEmail(r)

\* res.json({message: 'Webhook processed successfully'}) after the handler.
StripeWebhook_Respond(r) ==
  /\ req[r].kind = "webhook"
  /\ req[r].pc = "respond"
  /\ lastResp' = Response(req[r], 200)
  /\ req' = [req EXCEPT ![r] = Idle]
  /\ UNCHANGED <<invoices, clients, nreq, paidBy, reverted, eventLog, restVars>>


\* ------------------------------------------------- operator endpoints
\* "Check if invoice exists and belongs to user": the invoices/clients join
\* every endpoint of routes/invoices starts with.  A miss is answered 404
\* in the same step; a hit keeps the row read (existingInvoice) in the
\* request.
ExistingInvoice(r, kind, id, target) ==
  LET q0 == [Idle EXCEPT !.kind = kind, !.invoiceId = id, !.target = target] IN
  /\ CanStart(r)
  /\ nreq' = nreq + 1
  /\ IF ~OwnInvoice(id)
       THEN /\ lastResp' = Response(q0, 404)
            /\ UNCHANGED req
     ELSE /\ req' = [req EXCEPT ![r] =
                       [q0 EXCEPT !.pc = "update", !.found = TRUE,
                                  !.existing = invoices[id].status,
                                  !.clientEmail = ClientEmailOf(invoices, clients, id)]]
          /\ lastResp' = NoResponse
  /\ UNCHANGED <<invoices, clients, paidBy, reverted, eventLog, restVars>>

\* The UPDATE of an operator endpoint; next is the pc after it.
OperatorUpdate(r, s, next) ==
  LET id == req[r].invoiceId IN
  /\ WriteStatus(NullEvent, id, s)
  /\ req' = [req EXCEPT ![r].pc = next,
                        ![r].before = StatusOf(invoices, id)]
  /\ lastResp' = NoResponse
  /\ UNCHANGED <<clients, nreq, eventLog, restVars>>

AtPc(r, kind, pc) == req[r].kind = kind /\ req[r].pc = pc

\* PATCH /api/invoices/:id/send
Send_Check(r) == \E id \in InvoiceIdParams : ExistingInvoice(r, "send", id, "")

Send_Update(r) ==
  /\ AtPc(r, "send", "update")
  /\ OperatorUpdate(r, "sent", IF req[r].clientEmail THEN "email" ELSE "respond")

\* emailService.sendInvoiceEmail (the invoice itself, not a confirmation).
Send_Email(r) ==
  /\ AtPc(r, "send", "email")
  /\ req' = [req EXCEPT ![r].emailed = @ + 1, ![r].pc = "respond"]
  /\ lastResp' = NoResponse
  /\ UNCHANGED <<invoices, clients, nreq, paidBy, reverted, eventLog, restVars>>

\* PATCH /api/invoices/:id/pay
Pay_Check(r) == \E id \in InvoiceIdParams : ExistingInvoice(r, "pay", id, "")

Pay_Update(r) ==
  /\ AtPc(r, "pay", "update")
  /\ OperatorUpdate(r, "paid", IF req[r].clientEmail THEN "email" ELSE "respond")

Pay_Email(r) ==
  /\ AtPc(r, "pay", "email")
  /\ SendPaymentConfirmationEmail(r)

\* PATCH /api/invoices/:id/status
Status_Check(r) ==
  \E id \in InvoiceIdParams, status \in StatusDomain :
    ExistingInvoice(r, "status", id, status)

\* status === 'paid' && currentInvoice.status !== 'paid', then client.email
StatusSendsEmail(q) ==
  q.target = "paid" /\ q.existing # "paid" /\ q.clientEmail

Status_Update(r) ==
  /\ AtPc(r, "status", "update")
  /\ OperatorUpdate(r, req[r].target,
                    IF StatusSendsEmail(req[r]) THEN "email" ELSE "respond")

Status_Email(r) ==
  /\ AtPc(r, "status", "email")
  /\ SendPaymentConfirmationEmail(r)

\* res.json(...) of send, pay and status, after the email block.
Operator_Respond(r) ==
  /\ req[r].kind \in {"send", "pay", "status"}
  /\ req[r].pc = "respond"
  /\ lastResp' = Response(req[r], 200)
  /\ req' = [req EXCEPT ![r] = Idle]
  /\ UNCHANGED <<invoices, clients, nreq, paidBy, reverted, eventLog, restVars>>

\* POST /api/payments/confirm/:id: one UPDATE ... RETURNING, then the
\* response (404 when no row was updated).  It awaits nothing else, so the
\* request is a single step.
Confirm(r) ==
  /\ CanStart(r)
  /\ \E id \in InvoiceIdParams :
       LET q0 == [Idle EXCEPT !.kind = "confirm", !.invoiceId = id,
                              !.found = id \in DOMAIN invoices,
                              !.before = StatusOf(invoices, id)]
       IN /\ WriteStatus(NullEvent, id, "paid")
          /\ lastResp' = Response(q0, IF q0.found THEN 200 ELSE 404)
  /\ nreq' = nreq + 1
  /\ UNCHANGED <<clients, req, eventLog, restVars>>

\* ------------------------------------------------------- specification
\* The webhook route and the status endpoints.
Next ==
  \E r \in Slots :
    \/ StripeWebhook(r)
    \/ HandlePaymentSuccess_Update(r)
    \/ HandlePaymentSuccess_Select(r)
    \/ HandlePaymentSuccess_Email(r)
    \/ HandlePaymentFailure_Update(r)
    \/ HandlePaymentFailure_Select(r)
    \/ HandlePaymentCancellation_Update(r)
    \/ HandleCheckoutSessionCompleted_Update(r)
    \/ HandleCheckoutSessionCompleted_Select(r)
    \/ HandleCheckoutSessionCompleted_Email(r)
    \/ StripeWebhook_Respond(r)
    \/ Send_Check(r)
    \/ Send_Update(r)
    \/ Send_Email(r)
    \/ Pay_Check(r)
    \/ Pay_Update(r)
    \/ Pay_Email(r)
    \/ Status_Check(r)
    \/ Status_Update(r)
    \/ Status_Email(r)
    \/ Operator_Respond(r)
    \/ Confirm(r)

Spec == Init /\ [][Next]_vars

\* ------------------------------------------- failures of collaborators
\* The route's catch block: res.status(400) 'Webhook processing failed'.
WebhookErrorCode == 400

\* An awaited database statement of a webhook handler rejects: the handler
\* rethrows and the route's catch block answers.
WebhookDbFailure(r) ==
  /\ req[r].kind = "webhook"
  /\ req[r].pc \in {"update", "select"}
  /\ lastResp' = Response([req[r] EXCEPT !.dbFailed = TRUE], WebhookErrorCode)
  /\ req' = [req EXCEPT ![r] = Idle]
  /\ UNCHANGED <<invoices, clients, nreq, paidBy, reverted, eventLog, restVars>>

\* A notification failure that undoes the status write of its request.
NotificationFailure_Rollback(r) ==
  /\ req[r].pc = "email"
  /\ req' = [req EXCEPT ![r].pc = "respond", ![r].emailFailed = TRUE]
  /\ invoices' = UpdateStatus(invoices, req[r].invoiceId, req[r].before)
  /\ lastResp' = NoResponse
  /\ UNCHANGED <<clients, nreq, paidBy, reverted, eventLog, restVars>>

\* PDF generation or the email call fails (throws, or sendEmail returns
\* false): every endpoint wraps them in a try/catch that only logs, so the
\* request goes on to its response.
NotificationFailure(r) ==
  /\ req[r].pc = "email"
  /\ req' = [req EXCEPT ![r].pc = "respond", ![r].emailFailed = TRUE]
  /\ lastResp' = NoResponse
  /\ UNCHANGED <<invoices, clients, nreq, paidBy, reverted, eventLog, restVars>>

NextF ==
  \/ Next
  \/ \E r \in Slots : WebhookDbFailure(r)
  \/ \E r \in Slots : NotificationFailure(r)

\* The same system with failing collaborators.
SpecF == Init /\ [][NextF]_vars

\* ------------------------------------------------------ process crash
\* The server process dies while a webhook request is in flight: every
\* request in flight ends without a response, what was written stays
\* written and emails that were sent stay sent.  The gateway, which got no
\* acknowledgement, delivers the event again later (StripeWebhook).
Crash ==
  /\ \E r \in Slots :
       /\ req[r].kind = "webhook"
       /\ crashed' = [event |-> req[r].event, emailed |-> req[r].emailed]
  /\ req' = [s \in Slots |-> Idle]
  /\ lastResp' = NoResponse
  /\ UNCHANGED <<invoices, clients, nreq, paidBy, reverted, eventLog,
                 invoiceItems, edit, serial, projects, resolved, poll>>

NextCrash ==
  \/ Next
  \/ Crash

\* The webhook route and the status endpoints on a server that can crash.
SpecCrash == Init /\ [][NextCrash]_vars

\* ------------------------------------- POST /, PUT /:id and DELETE /:id
\* Every awaited statement of the three handlers is a step; the response
\* follows the last statement of a handler without another await.
ClientIdParams == {1, 2}

\* What generateInvoiceNumber can return: `INV-${Date.now()}-${random}`
\* of two calls can be the same string.
InvoiceNumbers == {"INV-1", "INV-2", "INV-3"}

\* The status field of a PUT body ("": absent).
PutStatuses == {"", "sent"}

EditResponse(kind, code) ==
  [NoResponse EXCEPT !.kind = kind, !.code = code, !.dbFailed = (code = 500)]

CanEdit(r) == edit[r] = NoEdit /\ nreq < MaxRequests

EditAt(r, kind, pc) == edit[r].kind = kind /\ edit[r].pc = pc

\* The part of the three tables the handlers below leave alone.
statusVars == <<clients, req, paidBy, reverted, eventLog, projects, resolved, crashed, poll>>

\* POST /: the client check.
Create_Check(r) ==
  /\ CanEdit(r)
  /\ nreq' = nreq + 1
  /\ \E clientId \in ClientIdParams, items \in ItemLists :
       IF clientId \notin DOMAIN clients \/ clients[clientId].userId # SessionUserId
         THEN /\ lastResp' = EditResponse("create", 404)
              /\ UNCHANGED edit
       ELSE /\ edit' = [edit EXCEPT ![r] =
                          [NoEdit EXCEPT !.kind = "create", !.pc = "insertInvoice",
                                         !.clientId = clientId, !.items = items]]
            /\ lastResp' = NoResponse
  /\ UNCHANGED <<invoices, invoiceItems, serial, statusVars>>

\* An INSERT into invoices that is not checked against the numbers stored.
InsertInvoice_Unchecked(r, id, invoiceNumber) ==
  /\ invoices' = (id :> [status |-> "draft",
                         totalAmount |-> CalculateTotal(edit[r].items),
                         currency |-> "PHP", clientId |-> edit[r].clientId,
                         invoiceNumber |-> invoiceNumber,
                         userId |-> SessionUserId, paymentLink |-> ""]) @@ invoices
  /\ edit' = [edit EXCEPT ![r].pc = "insertItems", ![r].invoiceId = id]
  /\ lastResp' = NoResponse

\* db.insert(invoices).values({..., invoiceNumber, totalAmount, status:
\* 'draft'}): invoice_number is UNIQUE, so the statement fails on a number
\* that is stored already and the catch block answers 500.
InsertInvoice(r, id, invoiceNumber) ==
  IF \E i \in DOMAIN invoices : invoices[i].invoiceNumber = invoiceNumber
    THEN /\ lastResp' = EditResponse("create", 500)
         /\ edit' = [edit EXCEPT ![r] = NoEdit]
         /\ UNCHANGED invoices
  ELSE /\ invoices' = (id :> [status |-> "draft",
                              totalAmount |-> CalculateTotal(edit[r].items),
                              currency |-> "PHP", clientId |-> edit[r].clientId,
                              invoiceNumber |-> invoiceNumber,
                              userId |-> SessionUserId, paymentLink |-> ""]) @@ invoices
       /\ edit' = [edit EXCEPT ![r].pc = "insertItems", ![r].invoiceId = id]
       /\ lastResp' = NoResponse

\* POST /: calculateTotal, generateInvoiceNumber and the insert of the
\* invoice.  The id sequence advances whether or not the insert succeeds.
Create_InsertInvoice(r) ==
  /\ EditAt(r, "create", "insertInvoice")
  /\ serial' = serial + 1
  /\ \E invoiceNumber \in InvoiceNumbers : InsertInvoice(r, serial + 1, invoiceNumber)
  /\ UNCHANGED <<invoiceItems, nreq, statusVars>>

\* db.insert(invoiceItems).values(rows): invoice_id REFERENCES invoices, so
\* the statement fails when the invoice is gone.
InsertItems(r, okCode) ==
  LET id == edit[r].invoiceId IN
  /\ IF id \in DOMAIN invoices
       THEN /\ invoiceItems' = invoiceItems (+) ItemRows(id, edit[r].items)
            /\ lastResp' = EditResponse(edit[r].kind, okCode)
     ELSE /\ lastResp' = EditResponse(edit[r].kind, 500)
          /\ UNCHANGED invoiceItems
  /\ edit' = [edit EXCEPT ![r] = NoEdit]
  /\ UNCHANGED <<invoices, nreq, serial, statusVars>>

\* POST /: the insert of the items and the 201 response.
Create_InsertItems(r) ==
  /\ EditAt(r, "create", "insertItems")
  /\ InsertItems(r, 201)

\* The select both PUT and DELETE start with: 404 unless the invoice exists.
ExistingForEdit(r, kind, id, items, status, next) ==
  /\ CanEdit(r)
  /\ nreq' = nreq + 1
  /\ IF ~OwnInvoice(id)
       THEN /\ lastResp' = EditResponse(kind, 404)
            /\ UNCHANGED edit
     ELSE /\ edit' = [edit EXCEPT ![r] =
                        [NoEdit EXCEPT !.kind = kind, !.pc = next, !.invoiceId = id,
                                       !.items = items, !.status = status]]
          /\ lastResp' = NoResponse
  /\ UNCHANGED <<invoices, invoiceItems, serial, statusVars>>

\* PUT /:id: the existence check.  items = <<>> is a body without items.
Put_Check(r) ==
  \E id \in InvoiceIdParams, items \in ItemLists \cup {<<>>}, status \in PutStatuses :
    ExistingForEdit(r, "put", id, items, status, "updateInvoice")

\* PUT /:id: db.update(invoices).set(invoiceUpdateData), which carries the
\* status when the body has one and the total when the body has items.
Put_UpdateInvoice(r) ==
  LET id == edit[r].invoiceId
      q  == edit[r]
  IN /\ EditAt(r, "put", "updateInvoice")
     /\ invoices' =
          IF id \notin DOMAIN invoices THEN invoices
          ELSE [invoices EXCEPT
                  ![id].status = IF q.status # "" THEN q.status ELSE @,
                  ![id].totalAmount =
                     IF q.items # <<>> THEN CalculateTotal(q.items) ELSE @]
     /\ IF q.items # <<>>
          THEN /\ edit' = [edit EXCEPT ![r].pc = "deleteItems"]
               /\ lastResp' = NoResponse
        ELSE /\ edit' = [edit EXCEPT ![r] = NoEdit]
             /\ lastResp' = EditResponse("put", 200)
     /\ UNCHANGED <<invoiceItems, nreq, serial, statusVars>>

\* PUT /:id: the delete of the stored items.
Put_DeleteItems(r) ==
  /\ EditAt(r, "put", "deleteItems")
  /\ invoiceItems' = DeleteItems(invoiceItems, edit[r].invoiceId)
  /\ edit' = [edit EXCEPT ![r].pc = "insertItems"]
  /\ lastResp' = NoResponse
  /\ UNCHANGED <<invoices, nreq, serial, statusVars>>

\* PUT /:id: the insert of the new items and the response.
Put_InsertItems(r) ==
  /\ EditAt(r, "put", "insertItems")
  /\ InsertItems(r, 200)

\* DELETE /:id: the existence check.
Delete_Check(r) ==
  \E id \in InvoiceIdParams : ExistingForEdit(r, "delete", id, <<>>, "", "deleteItems")

\* DELETE /:id: the delete of the items.
Delete_Items(r) ==
  /\ EditAt(r, "delete", "deleteItems")
  /\ invoiceItems' = DeleteItems(invoiceItems, edit[r].invoiceId)
  /\ edit' = [edit EXCEPT ![r].pc = "deleteInvoice"]
  /\ lastResp' = NoResponse
  /\ UNCHANGED <<invoices, nreq, serial, statusVars>>

\* A delete of the invoice that no foreign key guards.
Delete_Invoice_NoForeignKey(r) ==
  LET id == edit[r].invoiceId IN
  /\ EditAt(r, "delete", "deleteInvoice")
  /\ invoices' = [i \in DOMAIN invoices \ {id} |-> invoices[i]]
  /\ lastResp' = EditResponse("delete", 200)
  /\ edit' = [edit EXCEPT ![r] = NoEdit]
  /\ UNCHANGED <<invoiceItems, nreq, serial, statusVars>>

\* DELETE /:id: the delete of the invoice, which the foreign key refuses
\* while an item still refers to it, and the response.
Delete_Invoice(r) ==
  LET id == edit[r].invoiceId IN
  /\ EditAt(r, "delete", "deleteInvoice")
  /\ IF \E x \in BagToSet(invoiceItems) : x.invoiceId = id
       THEN /\ lastResp' = EditResponse("delete", 500)
            /\ UNCHANGED invoices
     ELSE /\ invoices' = [i \in DOMAIN invoices \ {id} |-> invoices[i]]
          /\ lastResp' = EditResponse("delete", 200)
  /\ edit' = [edit EXCEPT ![r] = NoEdit]
  /\ UNCHANGED <<invoiceItems, nreq, serial, statusVars>>

NextCrud ==
  \E r \in Slots :
    \/ Create_Check(r)
    \/ Create_InsertInvoice(r)
    \/ Create_InsertItems(r)
    \/ Put_Check(r)
    \/ Put_UpdateInvoice(r)
    \/ Put_DeleteItems(r)
    \/ Put_InsertItems(r)
    \/ Delete_Check(r)
    \/ Delete_Items(r)
    \/ Delete_Invoice(r)

\* The invoice editing endpoints on their own.
SpecCrud == Init /\ [][NextCrud]_vars

\* ------------------------------------- the currency of an invoice email
MaxProjects == 3

ProjectCurrencies == {"PHP", "USD", "EUR"}

ProjectRows == [clientId : ClientIdParams, currency : ProjectCurrencies]

ProjectLists == UNION {[1..n -> ProjectRows] : n \in 0..MaxProjects}

\* projectData.length > 0 ? projectData[0].currency : 'USD'
ResolveCurrency(projectData) ==
  IF Len(projectData) > 0 THEN projectData[1].currency ELSE "USD"

\* db.select().from(projects).where(eq(projects.clientId, id)).limit(1):
\* there is no ORDER BY, so the row returned is any one of the client's.
SelectProjectLimit1(id) ==
  {<<projects[k]>> : k \in {j \in 1..Len(projects) : projects[j].clientId = id}}
    \cup (IF \E j \in 1..Len(projects) : projects[j].clientId = id
            THEN {} ELSE {<<>>})

\* The currency lookup of PATCH /:id/send and PATCH /:id/pay.
GetProjectCurrency ==
  /\ \E id \in ClientIdParams :
     \E projectData \in SelectProjectLimit1(id) :
       resolved' = [clientId |-> id, currency |-> ResolveCurrency(projectData)]
  /\ lastResp' = NoResponse
  /\ UNCHANGED <<invoices, clients, req, nreq, paidBy, reverted, eventLog,
                 invoiceItems, edit, serial, projects, crashed, poll>>

NextCurrency == GetProjectCurrency

InitCurrency ==
  /\ InitBase
  /\ projects \in ProjectLists

\* The currency lookup over every projects table of up to MaxProjects rows.
SpecCurrency == InitCurrency /\ [][NextCurrency]_vars

\* ------------------------------------------- POST /api/invoices/:id/remind
\* The select (invoice, client and project of the requester), the refusal
\* of a paid invoice and the refusal of a client without an email address.
\* A variant that does not look at the status:
Remind_Refuses_Nothing(status) == FALSE
\* if (invoice.status === 'paid') return res.status(400)
Remind_Refuses(status) == status = "paid"

Remind_Check(r) ==
  /\ CanStart(r)
  /\ nreq' = nreq + 1
  /\ \E id \in InvoiceIdParams :
       LET q0 == [Idle EXCEPT !.kind = "remind", !.invoiceId = id] IN
       IF ~OwnInvoice(id)
         THEN /\ lastResp' = Response(q0, 404)
              /\ UNCHANGED req
       ELSE IF Remind_Refuses(invoices[id].status)
         THEN /\ lastResp' = Response(q0, 400)
              /\ UNCHANGED req
       ELSE IF ~ClientEmailOf(invoices, clients, id)
         THEN /\ lastResp' = Response(q0, 400)
              /\ UNCHANGED req
       ELSE /\ req' = [req EXCEPT ![r] =
                         [q0 EXCEPT !.pc = "email", !.found = TRUE,
                                    !.existing = invoices[id].status,
                                    !.clientEmail = TRUE]]
            /\ lastResp' = NoResponse
  /\ UNCHANGED <<invoices, clients, paidBy, reverted, eventLog, restVars>>

\* emailService.sendPaymentReminderEmail and the response: 200 when the
\* email was sent, 500 when the service reports a failure.
Remind_Email(r) ==
  /\ AtPc(r, "remind", "email")
  /\ \E emailSent \in BOOLEAN :
       lastResp' = IF emailSent
                     THEN Response([req[r] EXCEPT !.emailed = @ + 1], 200)
                   ELSE Response([req[r] EXCEPT !.emailFailed = TRUE], 500)
  /\ req' = [req EXCEPT ![r] = Idle]
  /\ UNCHANGED <<invoices, clients, nreq, paidBy, reverted, eventLog, restVars>>

\* ------------------------------------------------------ /api/payments
\* The invoiceId of a request body (NoInvoiceId: missing).
PaymentIdParams == InvoiceIdParams \cup {NoInvoiceId}

\* The check both creation routes start with: 400 without an invoice id,
\* 404 for an unknown invoice, 403 when invoice.userId is not the requester.
PaymentCheck(r, kind) ==
  /\ CanStart(r)
  /\ nreq' = nreq + 1
  /\ \E id \in PaymentIdParams :
       LET q0 == [Idle EXCEPT !.kind = kind, !.invoiceId = id] IN
       IF id = NoInvoiceId
         THEN /\ lastResp' = Response(q0, 400)
              /\ UNCHANGED req
       ELSE IF id \notin DOMAIN invoices
         THEN /\ lastResp' = Response(q0, 404)
              /\ UNCHANGED req
       ELSE IF invoices[id].userId # SessionUserId
         THEN /\ lastResp' = Response(q0, 403)
              /\ UNCHANGED req
       ELSE /\ req' = [req EXCEPT ![r] =
                         [q0 EXCEPT !.pc = "gateway", !.found = TRUE,
                                    !.existing = invoices[id].status]]
            /\ lastResp' = NoResponse
  /\ UNCHANGED <<invoices, clients, paidBy, reverted, eventLog, restVars>>

\* POST /api/payments/create-payment-intent: the check.
PaymentIntent_Check(r) == PaymentCheck(r, "intent")

\* POST /api/payments/create-payment-link: the check.
PaymentLink_Check(r) == PaymentCheck(r, "link")

\* stripeService.createPaymentIntent / createPaymentLink: the gateway
\* answers, or the call throws and the catch block answers 500.
Payment_Gateway(r) ==
  /\ req[r].kind \in {"intent", "link"}
  /\ req[r].pc = "gateway"
  /\ \E created \in BOOLEAN :
       IF created
         THEN /\ req' = [req EXCEPT ![r].pc = "update"]
              /\ lastResp' = NoResponse
       ELSE /\ req' = [req EXCEPT ![r] = Idle]
            /\ lastResp' = Response([req[r] EXCEPT !.dbFailed = TRUE], 500)
  /\ UNCHANGED <<invoices, clients, nreq, paidBy, reverted, eventLog, restVars>>

\* An UPDATE that marks the invoice sent along with storing the link.
SetPaymentLink_MarkSent(inv, id, link) ==
  IF id \in DOMAIN inv
    THEN [inv EXCEPT ![id].paymentLink = link, ![id].status = "sent"]
  ELSE inv
\* db.update(invoices).set({paymentLink, updatedAt}).where(eq(invoices.id, id))
SetPaymentLink(inv, id, link) ==
  IF id \in DOMAIN inv THEN [inv EXCEPT ![id].paymentLink = link] ELSE inv

\* The UPDATE of a creation route and its 200 response.
Payment_Update(r, kind, link) ==
  /\ AtPc(r, kind, "update")
  /\ invoices' = SetPaymentLink(invoices, req[r].invoiceId, link)
  /\ lastResp' = Response(req[r], 200)
  /\ req' = [req EXCEPT ![r] = Idle]
  /\ UNCHANGED <<clients, nreq, paidBy, reverted, eventLog, restVars>>

\* paymentLink: `https://dashboard.stripe.com/payments/${paymentIntent.id}`
PaymentIntent_Update(r) == Payment_Update(r, "intent", "dashboard/payments/pi")

\* paymentLink: paymentLink.url
PaymentLink_Update(r) == Payment_Update(r, "link", "paymentLink.url")

\* A read-only request answered in one step.
ReadOnly(r, kind, id, code) ==
  /\ CanStart(r)
  /\ nreq' = nreq + 1
  /\ lastResp' = Response([Idle EXCEPT !.kind = kind, !.invoiceId = id,
                                       !.found = id \in DOMAIN invoices], code)
  /\ UNCHANGED <<invoices, clients, req, paidBy, reverted, eventLog, restVars>>

\* GET /api/payments/status/:invoiceId: 404, 403 for another user's
\* invoice, else the status and the payment link.
PaymentStatus(r) ==
  \E id \in InvoiceIdParams :
    ReadOnly(r, "paymentStatus", id,
             IF id \notin DOMAIN invoices THEN 404
             ELSE IF invoices[id].userId # SessionUserId THEN 403
             ELSE 200)

\* GET /api/payment-status/status/:id: 404 for an unknown invoice, else the
\* status, number and total of the invoice.
StatusCheck(r) ==
  \E id \in InvoiceIdParams :
    ReadOnly(r, "statusCheck", id, IF id \notin DOMAIN invoices THEN 404 ELSE 200)

NextOwner ==
  \E r \in Slots :
    \/ Send_Check(r)
    \/ Send_Update(r)
    \/ Send_Email(r)
    \/ Pay_Check(r)
    \/ Pay_Update(r)
    \/ Pay_Email(r)
    \/ Status_Check(r)
    \/ Status_Update(r)
    \/ Status_Email(r)
    \/ Operator_Respond(r)
    \/ Confirm(r)
    \/ Remind_Check(r)
    \/ Remind_Email(r)
    \/ PaymentIntent_Check(r)
    \/ PaymentLink_Check(r)
    \/ Payment_Gateway(r)
    \/ PaymentIntent_Update(r)
    \/ PaymentLink_Update(r)
    \/ PaymentStatus(r)
    \/ StatusCheck(r)
    \/ Put_Check(r)
    \/ Put_UpdateInvoice(r)
    \/ Put_DeleteItems(r)
    \/ Put_InsertItems(r)
    \/ Delete_Check(r)
    \/ Delete_Items(r)
    \/ Delete_Invoice(r)

InitOwner ==
  /\ InitOwnedBy(Users)
  /\ projects = <<[clientId |-> 1, currency |-> "PHP"]>>

\* The authenticated endpoints, with invoice 1 the requester's or not.
SpecOwner == InitOwner /\ [][NextOwner]_vars

NextPayments ==
  \E r \in Slots :
    \/ Confirm(r)
    \/ Remind_Check(r)
    \/ Remind_Email(r)
    \/ PaymentIntent_Check(r)
    \/ PaymentLink_Check(r)
    \/ Payment_Gateway(r)
    \/ PaymentIntent_Update(r)
    \/ PaymentLink_Update(r)
    \/ PaymentStatus(r)
    \/ StatusCheck(r)

\* The reminder and payment routes next to the manual confirmation.
SpecPayments == InitOwner /\ [][NextPayments]_vars

\* ------------------------------------------ the PaymentSuccess page
\* useEffect of PaymentSuccess for invoice 1.  Timer callbacks and the
\* continuations of awaits are the steps; cleanup can run between any two.
MaxFetches == 3

\* All that the page's steps leave alone.
serverVars ==
  <<invoices, clients, req, nreq, lastResp, paidBy, reverted, eventLog,
    invoiceItems, edit, serial, projects, resolved, crashed>>

\* What api.get(`/invoices/1`) can resolve to when it settles: the status
\* stored at that moment, or a rejection ("error").
FetchOutcomes ==
  {"error"} \cup (IF 1 \in DOMAIN invoices THEN {invoices[1].status} ELSE {})

\* The effect runs: initialTimer = setTimeout(..., 2000).
Poll_Mount ==
  /\ ~poll.mounted
  /\ poll' = [poll EXCEPT !.mounted = TRUE, !.initialTimer = TRUE]
  /\ UNCHANGED serverVars

\* The initial timer fires and calls fetchInvoiceStatus, which awaits api.get.
Poll_InitialTimer ==
  /\ poll.initialTimer
  /\ poll.fetches < MaxFetches
  /\ poll' = [poll EXCEPT !.initialTimer = FALSE, !.initialFetch = TRUE,
                          !.fetches = @ + 1]
  /\ UNCHANGED serverVars

\* The initial fetch settles.  pollInterval is still null inside
\* fetchInvoiceStatus, so nothing is cleared; the timer callback then goes on
\* to setInterval(fetchInvoiceStatus, 3000) and arms the two-minute timeout.
Poll_InitialReturn ==
  /\ poll.initialFetch
  /\ \E outcome \in FetchOutcomes :
       poll' = [poll EXCEPT !.initialFetch = FALSE,
                            !.paidSeen = @ \/ outcome = "paid",
                            !.pollInterval = TRUE, !.stopTimer = TRUE]
  /\ UNCHANGED serverVars

\* The interval fires and calls fetchInvoiceStatus.
Poll_Tick ==
  /\ poll.pollInterval
  /\ poll.fetches < MaxFetches
  /\ poll' = [poll EXCEPT !.inFlight = @ + 1, !.fetches = @ + 1]
  /\ UNCHANGED serverVars

\* A periodic fetch settles: clearInterval when the invoice is paid, and in
\* the catch block.
Poll_FetchReturn ==
  /\ poll.inFlight > 0
  /\ \E outcome \in FetchOutcomes :
       poll' = [poll EXCEPT !.inFlight = @ - 1,
                            !.paidSeen = @ \/ outcome = "paid",
                            !.pollInterval = @ /\ outcome \notin {"paid", "error"}]
  /\ UNCHANGED serverVars

\* The two-minute timeout clears the interval.
Poll_StopTimeout ==
  /\ poll.stopTimer
  /\ poll' = [poll EXCEPT !.stopTimer = FALSE, !.pollInterval = FALSE]
  /\ UNCHANGED serverVars

\* The effect's cleanup: clearTimeout(initialTimer) and, when pollInterval is
\* set, clearInterval(pollInterval).
Poll_Cleanup ==
  /\ poll.mounted
  /\ ~poll.cleanedUp
  /\ poll' = [poll EXCEPT !.cleanedUp = TRUE, !.initialTimer = FALSE,
                          !.pollInterval = FALSE]
  /\ UNCHANGED serverVars

NextPoll ==
  \/ Poll_Mount
  \/ Poll_InitialTimer
  \/ Poll_InitialReturn
  \/ Poll_Tick
  \/ Poll_FetchReturn
  \/ Poll_StopTimeout
  \/ Poll_Cleanup
  \/ \E r \in Slots : Confirm(r)

\* The page next to a server on which the invoice can be confirmed paid.
SpecPoll == Init /\ [][NextPoll]_vars

TypeOK ==
  /\ \A i \in DOMAIN invoices : invoices[i].totalAmount \in InvoiceTotals
  /\ nreq \in 0..MaxRequests
  /\ \A r \in Slots : req[r].emailed \in 0..1


\* ================================================================ claims
\* A step taken by the webhook request in slot r.
WebhookStep(r) == req[r].kind = "webhook" /\ req'[r] # req[r]

\* The event's amount or currency differs from the invoice's.
AmountMismatch(event, invoice) ==
  \/ event.amount # AmountInCents(invoice.totalAmount)
  \/ ToUpperCase(event.currency) # invoice.currency

\* C1: an event that has already paid its invoice and is delivered again
\* changes no invoice and issues no further confirmation email.
C1_RedeliveryIsNoOp ==
  [][\A r \in Slots :
       (WebhookStep(r) /\ req[r].redelivery)
         => (invoices' = invoices /\ req'[r].emailed = req[r].emailed)]_vars

\* C2: when a webhook success event and a manual mark-paid request that read
\* the invoice as sent are in flight together and one of them made the
\* sent -> paid transition, the two together issue at most one
\* payment-confirmation email.
C2_RaceOneEmail ==
  \A r1, r2 \in Slots :
    ( /\ r1 # r2
      /\ req[r1].kind = "webhook" /\ req[r1].event.type \in SuccessTypes
      /\ req[r2].kind = "pay" /\ req[r2].existing = "sent"
      /\ req[r1].invoiceId = req[r2].invoiceId
      /\ req[r1].pc = "respond" /\ req[r2].pc = "respond"
      /\ {req[r1].before, req[r2].before} = {"sent", "paid"} )
    => req[r1].emailed + req[r2].emailed <= 1

\* C3: no step of a webhook request changes the status of an invoice that is
\* paid or cancelled.
C3_NoRegression ==
  [][\A r \in Slots : \A i \in DOMAIN invoices :
       (WebhookStep(r) /\ invoices[i].status \in {"paid", "cancelled"})
         => invoices'[i].status = invoices[i].status]_vars

\* C4: a success event leaves a draft invoice draft, and the request that
\* found the invoice draft issues no confirmation email.
C4_DraftStaysDraft ==
  [][\A r \in Slots :
       (WebhookStep(r) /\ req[r].event.type \in SuccessTypes)
         => /\ \A i \in DOMAIN invoices :
                 invoices[i].status = "draft" => invoices'[i].status = "draft"
            /\ req'[r].before = "draft" => req'[r].emailed = 0]_vars

\* C5: an event whose amount or currency differs from the invoice's never
\* changes the invoice's status.
C5_AmountInvariant ==
  [][\A r \in Slots :
       ( /\ WebhookStep(r)
         /\ req[r].invoiceId \in DOMAIN invoices
         /\ AmountMismatch(req[r].event, invoices[req[r].invoiceId]) )
         => invoices' = invoices]_vars

\* C6: after an operator reverted to sent an invoice that a success event
\* had paid, a later redelivery of that event leaves the invoice sent.
C6_ReversalIsAuthoritative ==
  [][\A r \in Slots :
       ( /\ WebhookStep(r)
         /\ req[r].afterRevert
         /\ reverted[req[r].invoiceId]
         /\ invoices[req[r].invoiceId].status = "sent" )
         => invoices'[req[r].invoiceId].status = "sent"]_vars

\* A verified success event that carries the id of a stored invoice and the
\* invoice's amount and currency.
HappyEvent(q) ==
  /\ q.kind = "webhook"
  /\ q.genuine
  /\ q.event.type \in SuccessTypes
  /\ q.invoiceId \in DOMAIN invoices
  /\ ~AmountMismatch(q.event, invoices[q.invoiceId])

\* C7: a verified success event with a matching amount moves a sent invoice
\* to paid, and the request that did so is answered 200 after issuing
\* exactly one confirmation email when the client has an address on file
\* (and none when it has not).
C7_HappyPath ==
  [][\A r \in Slots :
       HappyEvent(req[r]) =>
         /\ ( /\ req[r].pc = "update" /\ req'[r].pc # "update"
              /\ invoices[req[r].invoiceId].status = "sent" )
              => invoices'[req[r].invoiceId].status = "paid"
         /\ ( /\ req[r].pc = "respond" /\ req'[r] = Idle
              /\ req[r].before = "sent" /\ req[r].found )
              => /\ lastResp'.code = 200
                 /\ req[r].emailed =
                      IF clients[invoices[req[r].invoiceId].clientId].email
                        THEN 1 ELSE 0]_vars

C7_Witness ==
  \E r \in Slots :
    /\ HappyEvent(req[r])
    /\ req[r].event.type = "checkout.session.completed"
    /\ req[r].pc = "respond"
    /\ req[r].before = "sent"
    /\ req[r].emailed = 1
    /\ invoices[req[r].invoiceId].status = "paid"

\* C8: a payment_failed or canceled event leaves every invoice as it was.
C8_FailureIsDiagnosticOnly ==
  [][\A r \in Slots :
       ( /\ WebhookStep(r)
         /\ req[r].event.type \in {"payment_intent.payment_failed",
                                   "payment_intent.canceled"} )
         => invoices' = invoices]_vars

\* C9: every stored status is one of draft, sent, paid, overdue, cancelled.
C9_StatusDomain == \A i \in DOMAIN invoices : invoices[i].status \in StatusDomain

\* C10: a webhook request whose signature header is missing or does not
\* verify is answered 400 in the step that receives it, which changes no
\* invoice and starts no handler; no handler ever runs for such a request.
C10_SignatureFirst ==
  [][/\ \A r \in Slots : req'[r].kind = "webhook" => req'[r].genuine
     /\ (nreq' = nreq + 1 /\ req' = req /\ ~lastResp'.genuine)
          => (lastResp'.code = 400 /\ invoices' = invoices)]_vars

C10_Witness ==
  /\ lastResp.kind = "webhook"
  /\ ~lastResp.genuine
  /\ lastResp.code = 400
  /\ \A r \in Slots : req[r] = Idle


\* C11: the webhook endpoint answers 400 exactly for a signature failure,
\* 500 exactly when a persistence operation failed, and 200 otherwise.
C11_ResponseCodes ==
  lastResp.kind = "webhook" =>
    /\ lastResp.code \in {200, 400, 500}
    /\ (lastResp.code = 400) <=> ~lastResp.genuine
    /\ (lastResp.code = 500) <=> lastResp.dbFailed

\* C12: a verified event of a type the route does not dispatch on is
\* answered 200 in the step that receives it; that step changes no invoice
\* and starts no handler, so no email is issued for it.
C12_UnknownTypeTolerated ==
  [][/\ \A r \in Slots :
          req'[r].kind = "webhook" => req'[r].event.type \in HandledTypes
     /\ (lastResp'.event # NullEvent /\ lastResp'.event.type \notin HandledTypes)
          => (lastResp'.code = 200 /\ invoices' = invoices /\ req' = req)]_vars

C12_Witness ==
  /\ lastResp.kind = "webhook"
  /\ lastResp.genuine
  /\ lastResp.event.type = "charge.refunded"
  /\ lastResp.event.invoiceId = 1
  /\ lastResp.code = 200

\* The diagnostic an orphaned event is recorded with.
OrphanedEvent(event) == [event |-> event, diagnostic |-> "OrphanedEvent"]

\* C13: a verified event without an invoice id, or with the id of no stored
\* invoice, is answered 200, changes no invoice, issues no email and is
\* recorded with an OrphanedEvent diagnostic.
C13_OrphanRecorded ==
  [][/\ (lastResp'.event # NullEvent /\ lastResp'.event.type \in HandledTypes)
          => /\ lastResp'.code = 200
             /\ invoices' = invoices
             /\ OrphanedEvent(lastResp'.event) \in eventLog'
     /\ \A r \in Slots :
          ( /\ req[r].kind = "webhook" /\ req[r].pc = "respond" /\ req'[r] = Idle
            /\ req[r].invoiceId \notin DOMAIN invoices )
          => /\ lastResp'.code = 200
             /\ req[r].emailed = 0
             /\ OrphanedEvent(req[r].event) \in eventLog']_vars

\* C14: a manual confirmation (confirm, mark paid) that succeeds has the
\* notification effect of the webhook success path: one confirmation email
\* when the client has an address on file.
C14_SinglePathToPaid ==
  (lastResp.kind \in {"confirm", "pay"} /\ lastResp.code = 200)
    => lastResp.emailed =
         IF \E i \in DOMAIN invoices : clients[invoices[i].clientId].email
           THEN 1 ELSE 0

\* The transition table for operator actions (same-state is always legal).
OperatorTransitions ==
  {<<"draft", "sent">>, <<"sent", "paid">>, <<"sent", "overdue">>,
   <<"sent", "cancelled">>, <<"overdue", "cancelled">>,
   <<"paid", "sent">>, <<"cancelled", "sent">>}

\* C15: every status change made by a step that is not a webhook handler's
\* is in the transition table.
C15_OperatorTransitionsLegal ==
  [][\A i \in DOMAIN invoices :
       ( /\ invoices'[i].status # invoices[i].status
         /\ ~ \E r \in Slots : WebhookStep(r) )
         => <<invoices[i].status, invoices'[i].status>> \in OperatorTransitions]_vars

\* C18: a notification failure leaves every invoice as written and the
\* request goes on to answer 200, again without touching an invoice.
C18_NotificationFailureNonFatal ==
  [][\A r \in Slots :
       /\ (req[r].pc = "email" /\ req'[r].emailFailed)
            => (invoices' = invoices /\ req'[r].pc = "respond")
       /\ (req[r].emailFailed /\ req'[r] # req[r])
            => (lastResp'.code = 200 /\ invoices' = invoices)]_vars

C18_Witness ==
  \E r \in Slots :
    /\ req[r].emailFailed
    /\ req[r].kind \in {"webhook", "pay"}
    /\ req[r].pc = "respond"
    /\ req[r].before = "sent"
    /\ invoices[req[r].invoiceId].status = "paid"


\* The total of the rows stored for invoice id.
RECURSIVE SumRows(_, _)
SumRows(rows, xs) ==
  IF xs = {} THEN 0
  ELSE LET x == CHOOSE y \in xs : TRUE
       IN CopiesIn(x, rows) * x.quantity * x.unitPrice + SumRows(rows, xs \ {x})

ItemsOf(rows, id) == {x \in BagToSet(rows) : x.invoiceId = id}

StoredItemsTotal(rows, id) == SumRows(rows, ItemsOf(rows, id))

\* C16: in every reachable state, also between the statements of a request,
\* the stored total of every invoice is the sum of quantity * unitPrice over
\* its stored items.
C16_TotalInvariant ==
  \A i \in DOMAIN invoices :
    invoices[i].totalAmount = StoredItemsTotal(invoiceItems, i)

\* C17: no step of a create or update request changes the total or the items
\* of an invoice whose status is not draft.
C17_SentTotalsImmutable ==
  [][\A i \in DOMAIN invoices :
       ( /\ invoices[i].status # "draft"
         /\ \E r \in Slots : edit[r].kind \in {"create", "put"} /\ edit'[r] # edit[r] )
       => /\ i \in DOMAIN invoices'
          /\ invoices'[i].totalAmount = invoices[i].totalAmount
          /\ \A x \in ItemsOf(invoiceItems, i) \cup ItemsOf(invoiceItems', i) :
               CopiesIn(x, invoiceItems') = CopiesIn(x, invoiceItems)]_vars

\* C20: no two stored invoices have the same invoice number.
C20_UniqueInvoiceNumbers ==
  \A i, j \in DOMAIN invoices :
    i # j => invoices[i].invoiceNumber # invoices[j].invoiceNumber

\* Two creation requests in flight at once, both past their insert.
C20_Witness ==
  /\ \A r \in Slots : EditAt(r, "create", "insertItems")
  /\ \A r \in Slots : edit[r].invoiceId \in DOMAIN invoices
  /\ edit["a"].invoiceId # edit["b"].invoiceId


\* How many of the client's projects are in currency c.
ProjectCount(id, c) ==
  Cardinality({j \in 1..Len(projects) :
                 projects[j].clientId = id /\ projects[j].currency = c})

\* C19: the currency resolved for a client is a most frequent currency among
\* the client's projects, and the fallback when the client has none.
C19_MajorityCurrency ==
  resolved # NoCurrency =>
    LET id == resolved.clientId IN
    IF \A c \in ProjectCurrencies : ProjectCount(id, c) = 0
      THEN resolved.currency = "USD"
    ELSE \A c \in ProjectCurrencies :
           ProjectCount(id, resolved.currency) >= ProjectCount(id, c)


\* C21: a webhook handler issues a payment confirmation only when its UPDATE
\* changed the status: never when the invoice was paid already.
C21_NotifyOnlyOnChange ==
  [][\A r \in Slots :
       (WebhookStep(r) /\ req'[r].emailed > req[r].emailed)
         => req[r].before # "paid"]_vars

\* The status an operator request writes.
OperatorTarget(q) ==
  CASE q.kind = "send" -> "sent"
    [] q.kind = "pay" -> "paid"
    [] OTHER -> q.target

\* C22: an operator request whose target status is the status its UPDATE
\* found leaves the status as it was and issues no email.
C22_SameStateNoOp ==
  [][\A r \in Slots :
       ( /\ req[r].kind \in {"send", "pay", "status"}
         /\ req'[r] # req[r]
         /\ req[r].before = OperatorTarget(req[r]) )
       => /\ req'[r].emailed = req[r].emailed
          /\ invoices' = invoices]_vars

\* C30: every stored invoice item refers to a stored invoice.
C30_NoOrphanedItems ==
  \A x \in BagToSet(invoiceItems) : x.invoiceId \in DOMAIN invoices

\* A delete refused because a concurrent update stored items in between.
C30_Witness ==
  /\ lastResp.kind = "delete"
  /\ lastResp.code = 500
  /\ serial = 1
  /\ \E x \in BagToSet(invoiceItems) : x.invoiceId = 1 /\ x \notin BagToSet(ItemRows(1, InitialItems))


\* C23: when a handler was cut short by a crash after it had sent the
\* confirmation email for its event, no later delivery of that event sends
\* another one.
C23_CrashAtomicity ==
  [][\A r \in Slots :
       (WebhookStep(r) /\ req'[r].emailed > req[r].emailed)
         => ~(req[r].event = crashed.event /\ crashed.emailed > 0)]_vars

\* C24: once a webhook handler has written the status and is about to send
\* the email, the acknowledgement can be sent without the email step.
C24_AckDoesNotWaitForEmail ==
  \A r \in Slots :
    (req[r].kind = "webhook" /\ req[r].pc = "email")
      => ENABLED StripeWebhook_Respond(r)


\* The only way a request of SpecOwner may answer when no stored invoice is
\* the requester's.
Refusals == {400, 403, 404}

\* C25: no step changes or deletes an invoice that is not the requester's,
\* and while the stored invoices are all another user's every request is
\* refused.
C25_OwnershipIsolation ==
  [][/\ \A i \in DOMAIN invoices :
          ~OwnInvoice(i) => (i \in DOMAIN invoices' /\ invoices'[i] = invoices[i])
     /\ ( /\ lastResp'.kind \notin {"none", "webhook"}
          /\ DOMAIN invoices # {}
          /\ \A i \in DOMAIN invoices : ~OwnInvoice(i) )
        => lastResp'.code \in Refusals]_vars

\* C28: a reminder for an invoice read as paid is answered 400 in the step
\* that reads it and sends nothing; no step of a reminder request changes
\* an invoice.
C28_ReminderRefusedForPaid ==
  [][/\ \A r \in Slots :
          (req'[r].kind = "remind" /\ req[r].kind # "remind")
            => invoices[req'[r].invoiceId].status # "paid"
     /\ \A r \in Slots :
          (req[r].kind = "remind" /\ req'[r] # req[r]) => invoices' = invoices
     /\ lastResp'.kind = "remind"
          => /\ invoices' = invoices
             /\ (nreq' = nreq + 1) => (lastResp'.code \in {400, 404}
                                       /\ lastResp'.emailed = 0)]_vars

\* A reminder refused because the requester's invoice is paid.
C28_Witness ==
  /\ lastResp.kind = "remind"
  /\ lastResp.code = 400
  /\ OwnInvoice(1)
  /\ invoices[1].status = "paid"
  /\ clients[1].email

\* Everything of an invoice but its payment link.
Frame(invoice) == [invoice EXCEPT !.paymentLink = ""]

\* C29: a step of a payment-intent or payment-link request changes nothing
\* of any invoice but its paymentLink and changes no item; a request that is
\* refused, or whose gateway call fails, changes no invoice at all.
C29_PaymentLinkFrame ==
  [][/\ \A r \in Slots :
          (req[r].kind \in {"intent", "link"} /\ req'[r] # req[r])
            => /\ DOMAIN invoices' = DOMAIN invoices
               /\ \A i \in DOMAIN invoices : Frame(invoices'[i]) = Frame(invoices[i])
               /\ invoiceItems' = invoiceItems
     /\ (lastResp'.kind \in {"intent", "link"} /\ lastResp'.code # 200)
          => (invoices' = invoices /\ invoiceItems' = invoiceItems)]_vars

\* A payment link stored for an invoice that is still a draft.
C29_Witness ==
  /\ lastResp.kind = "link"
  /\ lastResp.code = 200
  /\ 1 \in DOMAIN invoices
  /\ invoices[1].paymentLink = "paymentLink.url"
  /\ invoices[1].status = "draft"


\* C26: once a status fetch of the page has returned paid, the page starts
\* no further fetch.
C26_PollingStopsOnPaid ==
  [][poll'.fetches > poll.fetches => ~poll.paidSeen]_vars

\* C27: once the effect's cleanup has run, the effect starts no further
\* fetch.
C27_NoPollingAfterUnmount ==
  [][poll'.fetches > poll.fetches => ~poll.cleanedUp]_vars

====
